---------------------------- MODULE Spec2Model ----------------------------
(***************************************************************************)
(* A model of main.py: the bottom-band blur, the icon row, the time        *)
(* caption, process_image and main.                                        *)
(*                                                                         *)
(* An image is a record [w, h, px]: its size and one channel of pixels,    *)
(* px[<<x, y>>] for 0 <= x < w, 0 <= y < h (Pillow treats the channels     *)
(* alike in crop, blur and paste, so one channel stands for all).          *)
(* Python's // is floor division, as is \div here.                         *)
(***************************************************************************)
EXTENDS Integers, Sequences, FiniteSets

VARIABLES
    call,        \* a direct call of one stage function: its name and arguments
    ret,         \* what that call returned (NoValue until it returns)
    pc,          \* main's position
    env,         \* the file system and font main runs against
    args,        \* the parsed command line (args.* in main)
    icon_paths,  \* main's icon_paths list
    idx,         \* the directory loop's position in os.listdir(args.input)
    frame,       \* the running process_image call: its position and locals
    out          \* what happened so far: lines printed, files written, calls made

vars == <<call, ret, pc, env, args, icon_paths, idx, frame, out>>

NoValue == [none |-> TRUE]

----------------------------------------------------------------------------
(* Bounds of the model *)

MaxW == 2          \* widest image of the pixel-level checks
MaxH == 3          \* tallest image
MaxB == 4          \* largest configured band height (above MaxH: the clamp)
MaxR == 1          \* largest blur radius

Pix == {0, 255}    \* the pixel values input images are drawn from

Coords(w, h) == (0 .. (w - 1)) \X (0 .. (h - 1))

Images(maxw, maxh) ==
    UNION { UNION { { [w |-> w, h |-> h, px |-> f] : f \in [Coords(w, h) -> Pix] }
                    : h \in 1 .. maxh } : w \in 1 .. maxw }

----------------------------------------------------------------------------
(* Pillow's image operations, as main.py uses them *)

\* An image of one colour: Image.new(mode, (w, h))
Blank(w, h) == [w |-> w, h |-> h, px |-> [p \in Coords(w, h) |-> 0]]

\* A new canvas of the image's size in place of a copy of it
copy_as_new_canvas(image) == Blank(image.w, image.h)

\* Image.copy
copy(image) == image

\* Image.crop(box), box = <<left, upper, right, lower>>; outside the image is 0
crop(image, box) ==
    LET w == box[3] - box[1]
        h == box[4] - box[2]
    IN  [w |-> w, h |-> h,
         px |-> [p \in Coords(w, h) |->
                   LET q == <<p[1] + box[1], p[2] + box[2]>>
                   IN  IF q \in Coords(image.w, image.h) THEN image.px[q] ELSE 0]]

Clamp(v, lo, hi) == IF v < lo THEN lo ELSE IF v > hi THEN hi ELSE v

RECURSIVE SumSeq(_)
SumSeq(s) == IF s = <<>> THEN 0 ELSE Head(s) + SumSeq(Tail(s))

\* The window of a blur of the given radius around p, edges extended
Window(im, p, radius) ==
    [k \in 1 .. ((2 * radius + 1) * (2 * radius + 1)) |->
        LET dx == ((k - 1) % (2 * radius + 1)) - radius
            dy == ((k - 1) \div (2 * radius + 1)) - radius
        IN  im.px[<<Clamp(p[1] + dx, 0, im.w - 1), Clamp(p[2] + dy, 0, im.h - 1)>>]]

\* Image.filter(ImageFilter.GaussianBlur(radius)): every pixel becomes a mean of
\* the pixels of the SAME image around it (Pillow's box approximation, one pass);
\* radius 0 leaves the image as it is.
GaussianBlur(im, radius) ==
    IF radius <= 0 THEN im
    ELSE [w |-> im.w, h |-> im.h,
          px |-> [p \in Coords(im.w, im.h) |->
                    SumSeq(Window(im, p, radius))
                        \div ((2 * radius + 1) * (2 * radius + 1))]]

InBox(p, box) == /\ box[1] <= p[1] /\ p[1] < box[3]
                 /\ box[2] <= p[2] /\ p[2] < box[4]

\* Image.paste(src, box): src replaces the pixels of the box
paste_box(result, src, box) ==
    [result EXCEPT !.px =
        [p \in Coords(result.w, result.h) |->
            IF InBox(p, box) /\ <<p[1] - box[1], p[2] - box[2]>> \in Coords(src.w, src.h)
            THEN src.px[<<p[1] - box[1], p[2] - box[2]>>]
            ELSE result.px[p]]]

----------------------------------------------------------------------------
(* apply_bottom_blur *)

\* A clamp that is off by one row (a plausible slip of lines 11-12)
clamp_blur_height_off_by_one(blur_height, height) ==
    IF blur_height > height + 1 THEN height ELSE blur_height

\* lines 11-12: blur_height as used after the clamp
clamp_blur_height(blur_height, height) ==
    IF blur_height > height THEN height ELSE blur_height

\* A band that starts one row too high
bottom_area_one_row_up(image, blur_height) ==
    LET bh == clamp_blur_height(blur_height, image.h)
    IN  <<0, Clamp(image.h - bh - 1, 0, image.h), image.w, image.h>>

\* line 15: the band, <<left, upper, right, lower>>
bottom_area(image, blur_height) ==
    <<0, image.h - clamp_blur_height(blur_height, image.h), image.w, image.h>>

apply_bottom_blur(image, blur_radius, blur_height) ==
    LET area           == bottom_area(image, blur_height)
        result         == copy(image)
        bottom_part    == crop(image, area)
        blurred_bottom == GaussianBlur(bottom_part, blur_radius)
    IN  paste_box(result, blurred_bottom, area)

----------------------------------------------------------------------------
(* Direct calls of apply_bottom_blur *)

Idle == /\ pc = "idle" /\ env = NoValue /\ args = NoValue
        /\ icon_paths = <<>> /\ idx = 0 /\ frame = NoValue /\ out = <<>>

InitBlur ==
    /\ call \in { [fn |-> "apply_bottom_blur", image |-> i,
                   blur_radius |-> r, blur_height |-> b]
                  : i \in Images(MaxW, MaxH), r \in 0 .. MaxR, b \in 0 .. MaxB }
    /\ ret = NoValue
    /\ Idle

CallApplyBottomBlur ==
    /\ call.fn = "apply_bottom_blur"
    /\ ret = NoValue
    /\ ret' = [image |-> apply_bottom_blur(call.image, call.blur_radius, call.blur_height),
               area  |-> bottom_area(call.image, call.blur_height)]
    /\ UNCHANGED <<call, pc, env, args, icon_paths, idx, frame, out>>

NextBlur == CallApplyBottomBlur

SpecBlur == InitBlur /\ [][NextBlur]_vars

BlurReturned == call.fn = "apply_bottom_blur" /\ ret # NoValue

\* C1: for 0 <= b <= H the image apply_bottom_blur returns has the size of its
\* input, and every pixel of rows 0 .. H-b-1 (above the band) is the input's.
C1_AboveBandUntouched ==
    (BlurReturned /\ 0 <= call.blur_height /\ call.blur_height <= call.image.h) =>
        /\ ret.image.w = call.image.w
        /\ ret.image.h = call.image.h
        /\ DOMAIN ret.image.px = Coords(call.image.w, call.image.h)
        /\ \A p \in Coords(call.image.w, call.image.h) :
              p[2] < call.image.h - call.blur_height =>
                  ret.image.px[p] = call.image.px[p]

\* C1's case: a band blurred with a radius that changes it, rows left above it
C1_Witness ==
    /\ BlurReturned
    /\ 0 < call.blur_height /\ call.blur_height < call.image.h
    /\ call.blur_radius > 0
    /\ ret.image # call.image

\* C2: a band height above the image height H is clamped: the band is rows
\* 0 .. H-1 (it starts at Y = 0 and is H high), and the whole image is blurred.
C2_BandClamped ==
    (BlurReturned /\ call.blur_height > call.image.h) =>
        /\ ret.area = <<0, 0, call.image.w, call.image.h>>
        /\ ret.image = GaussianBlur(call.image, call.blur_radius)

\* C2's case: a band height above the image height, and a blur that shows
C2_Witness ==
    /\ BlurReturned
    /\ call.blur_height > call.image.h
    /\ ret.image # call.image

----------------------------------------------------------------------------
(* add_icons_to_blur *)

MaxIconW == 4      \* widest image of the icon and caption checks
MaxIcons == 2      \* most files in the icon directory
MaxS == 2          \* largest icon size
MaxG == 1          \* largest icon spacing

BlankImages == { Blank(w, h) : w \in 1 .. MaxIconW, h \in 1 .. MaxH }

\* An icon file: whether Image.open(...).convert("RGBA") succeeds on it, and
\* (a one-colour icon) its colour c and alpha a.
IconFiles == { [ok |-> TRUE, c |-> 255, a |-> 204],
               [ok |-> FALSE, c |-> 0, a |-> 0] }

RECURSIVE SeqsUpTo(_, _)
SeqsUpTo(S, n) ==
    IF n = 0 THEN { <<>> }
    ELSE SeqsUpTo(S, n - 1)
         \cup { Append(q, e) : q \in { t \in SeqsUpTo(S, n - 1) : Len(t) = n - 1 }, e \in S }

\* icon.resize((icon_size, icon_size), Image.LANCZOS): one colour stays one colour
resize(icon, icon_size) == [w |-> icon_size, h |-> icon_size, c |-> icon.c, a |-> icon.a]

\* draw_image.paste(icon, (x, y), icon): the icon blended in by its own alpha,
\* clipped to the image
paste_masked(image, icon, at) ==
    [image EXCEPT !.px =
        [p \in Coords(image.w, image.h) |->
            IF InBox(p, <<at[1], at[2], at[1] + icon.w, at[2] + icon.h>>)
            THEN (image.px[p] * (255 - icon.a) + icon.c * icon.a) \div 255
            ELSE image.px[p]]]

\* A row width that counts one gap per icon
total_icons_width_gap_per_icon(n, icon_size, spacing) ==
    n * icon_size + n * spacing

\* line 39
total_icons_width(n, icon_size, spacing) ==
    n * icon_size + (n - 1) * spacing

\* line 40
start_x(width, n, icon_size, spacing) ==
    (width - total_icons_width(n, icon_size, spacing)) \div 2

\* line 50
icon_x(width, n, icon_size, spacing, i) ==
    start_x(width, n, icon_size, spacing) + i * (icon_size + spacing)

\* lines 33 and 51: blur_start_y is height - blur_height, the blur_height passed in
icon_y(height, blur_height, icon_size) ==
    (height - blur_height) + (blur_height - icon_size) \div 2

\* The function's result: the image returned, and what it did on the way: the
\* paste calls (icon index i, position) and the icons reported as not loadable.
add_icons_to_blur(image, paths, blur_height, icon_size, spacing) ==
    LET n == Len(paths)
        after[k \in 0 .. n] ==
            IF k = 0
            THEN [image |-> copy(image), pastes |-> <<>>, printed |-> <<>>]
            ELSE LET prev == after[k - 1]
                     i    == k - 1
                     at   == <<icon_x(image.w, n, icon_size, spacing, i),
                               icon_y(image.h, blur_height, icon_size)>>
                 IN  IF paths[k].ok
                     THEN [image   |-> paste_masked(prev.image,
                                                    resize(paths[k], icon_size), at),
                           pastes  |-> Append(prev.pastes,
                                              [i |-> i, x |-> at[1], y |-> at[2]]),
                           printed |-> prev.printed]
                     ELSE [prev EXCEPT !.printed = Append(@, i)]
    IN  after[n]

----------------------------------------------------------------------------
(* Direct calls of add_icons_to_blur *)

InitIcons ==
    /\ call \in { [fn |-> "add_icons_to_blur", image |-> im, icon_paths |-> ps,
                   blur_height |-> b, icon_size |-> s, spacing |-> g]
                  : im \in BlankImages, ps \in SeqsUpTo(IconFiles, MaxIcons),
                    b \in 0 .. MaxB, s \in 1 .. MaxS, g \in 0 .. MaxG }
    /\ ret = NoValue
    /\ Idle

CallAddIconsToBlur ==
    /\ call.fn = "add_icons_to_blur"
    /\ ret = NoValue
    /\ ret' = add_icons_to_blur(call.image, call.icon_paths, call.blur_height,
                                call.icon_size, call.spacing)
    /\ UNCHANGED <<call, pc, env, args, icon_paths, idx, frame, out>>

NextIcons == CallAddIconsToBlur

SpecIcons == InitIcons /\ [][NextIcons]_vars

IconsReturned == call.fn = "add_icons_to_blur" /\ ret # NoValue

\* The paste calls made for icon i
PastesOf(i) == { k \in 1 .. Len(ret.pastes) : ret.pastes[k].i = i }

\* C3: with N listed paths, size s, spacing g and width W, every icon i that
\* loads is pasted once, its left edge at floor((W - (N*s + (N-1)*g)) / 2) + i*(s+g),
\* N counting all listed paths; an icon that fails to load is not pasted and moves
\* no other icon.
C3_IconSlots ==
    IconsReturned =>
        LET N == Len(call.icon_paths)
            s == call.icon_size
            g == call.spacing
            W == call.image.w
        IN  \A i \in 0 .. (N - 1) :
                IF call.icon_paths[i + 1].ok
                THEN /\ Cardinality(PastesOf(i)) = 1
                     /\ \A k \in PastesOf(i) :
                           ret.pastes[k].x = ((W - (N * s + (N - 1) * g)) \div 2) + i * (s + g)
                ELSE PastesOf(i) = {}

\* C3's case: two icons listed, the first fails to load, the second is pasted
C3_Witness ==
    /\ IconsReturned
    /\ Len(call.icon_paths) = 2
    /\ ~call.icon_paths[1].ok
    /\ call.icon_paths[2].ok
    /\ Len(ret.pastes) = 1
    /\ ret.pastes[1].i = 1
    /\ ret.printed = <<0>>

----------------------------------------------------------------------------
(* add_time_to_blur *)

MaxPad == 2        \* largest padding
MaxBearing == 1    \* largest left and top offset of the measured text box
MaxText == 2       \* largest width and height of the measured text box

\* A font as add_time_to_blur sees it: whether ImageFont.truetype loads it, the
\* box draw.textbbox((0, 0), time_text) measures, <<left, top, right, bottom>>,
\* and font.getmetrics().
Fonts ==
    { [ok |-> ok, bbox |-> <<l, t, l + tw, t + th>>, ascent |-> t + th, descent |-> 0]
      : ok \in BOOLEAN, l \in 0 .. MaxBearing, t \in 0 .. MaxBearing,
        tw \in 1 .. MaxText, th \in 1 .. MaxText }

\* The pixels draw.text((x, y), time_text) inks: the measured box, moved to (x, y)
ink_box(at, bbox) == <<at[1] + bbox[1], at[2] + bbox[2], at[1] + bbox[3], at[2] + bbox[4]>>

\* draw.text(at, time_text, fill): the text's box inked in the fill colour
draw_text(image, at, bbox, fill) ==
    [image EXCEPT !.px = [p \in Coords(image.w, image.h) |->
                            IF InBox(p, ink_box(at, bbox)) THEN fill ELSE image.px[p]]]

\* line 95
outline_offsets ==
    << <<-1, -1>>, <<0, -1>>, <<1, -1>>, <<-1, 0>>, <<1, 0>>, <<-1, 1>>, <<0, 1>>, <<1, 1>> >>

\* line 86
text_x(width, bbox, padding) == width - (bbox[3] - bbox[1]) - padding

\* lines 67-68, 79, 82-83, 87
text_y(height, blur_height, font, vertical_offset) ==
    LET blur_start_y  == height - blur_height
        blur_center_y == blur_start_y + blur_height \div 2
        text_height   == font.bbox[4] - font.bbox[2]
        text_center_y == font.ascent - text_height \div 2
    IN  blur_center_y - text_center_y + vertical_offset

\* The function's result: raised when the font does not load (line 74); else the
\* image, drawn on in place, and the draw.text calls made (position, inked box, fill).
add_time_to_blur(image, font, blur_height, padding, vertical_offset) ==
    IF ~font.ok
    THEN [raised |-> TRUE, image |-> image, draws |-> <<>>]
    ELSE LET x == text_x(image.w, font.bbox, padding)
             y == text_y(image.h, blur_height, font, vertical_offset)
             n == Len(outline_offsets)
             pos(k) == IF k <= n THEN <<x + outline_offsets[k][1], y + outline_offsets[k][2]>>
                       ELSE <<x, y>>
             fill(k) == IF k <= n THEN 0 ELSE 255
             after[k \in 0 .. (n + 1)] ==
                 IF k = 0 THEN [image |-> image, draws |-> <<>>]
                 ELSE [image |-> draw_text(after[k - 1].image, pos(k), font.bbox, fill(k)),
                       draws |-> Append(after[k - 1].draws,
                                        [at |-> pos(k), box |-> ink_box(pos(k), font.bbox),
                                         fill |-> fill(k)])]
         IN  [raised |-> FALSE, image |-> after[n + 1].image, draws |-> after[n + 1].draws]

----------------------------------------------------------------------------
(* Direct calls of add_time_to_blur *)

InitTime ==
    /\ call \in { [fn |-> "add_time_to_blur", image |-> im, font |-> f,
                   blur_height |-> b, padding |-> pad, vertical_offset |-> 0]
                  : im \in BlankImages, f \in Fonts, b \in 0 .. MaxB, pad \in 0 .. MaxPad }
    /\ ret = NoValue
    /\ Idle

CallAddTimeToBlur ==
    /\ call.fn = "add_time_to_blur"
    /\ ret = NoValue
    /\ ret' = add_time_to_blur(call.image, call.font, call.blur_height,
                               call.padding, call.vertical_offset)
    /\ UNCHANGED <<call, pc, env, args, icon_paths, idx, frame, out>>

NextTime == CallAddTimeToBlur

SpecTime == InitTime /\ [][NextTime]_vars

TimeReturned == call.fn = "add_time_to_blur" /\ ret # NoValue /\ ~ret.raised

\* The white caption: the last draw.text call
WhiteText == ret.draws[Len(ret.draws)]

\* C5: whatever the width, the padding and the measured box, the right edge of the
\* white caption as drawn is at x = imageWidth - padding.
C5_RightEdgeAtPadding ==
    TimeReturned =>
        /\ WhiteText.fill = 255
        /\ WhiteText.box[3] = call.image.w - call.padding

\* What the code does: the right edge is off by the measured box's left offset
C5_RightEdgeOffByLeft ==
    TimeReturned =>
        /\ WhiteText.fill = 255
        /\ WhiteText.box[3] = call.image.w - call.padding + call.font.bbox[1]

----------------------------------------------------------------------------
(* process_image *)

DefaultPadding == 50         \* add_time_to_blur's padding, which process_image leaves alone
DefaultVerticalOffset == 0   \* and its vertical_offset

\* An input file: "not_image" fails in Image.open (line 118); "truncated" opens
\* (Image.open reads only the header) and fails when its pixels are first loaded,
\* in apply_bottom_blur; "image" is a good image.
BadFiles == { [kind |-> "not_image", image |-> NoValue],
              [kind |-> "truncated", image |-> NoValue] }

\* A new call of process_image(input_path, output_path, icon_paths, time_text,
\* blur_radius, blur_height, icon_size, spacing, font_size); entry names the file.
NewFrame(entry, file, paths, blur_radius, blur_height, icon_size, spacing) ==
    [pc |-> "open", entry |-> entry, file |-> file, icon_paths |-> paths,
     blur_radius |-> blur_radius, blur_height |-> blur_height,
     icon_size |-> icon_size, spacing |-> spacing,
     img |-> NoValue, blurred_img |-> NoValue, band |-> NoValue,
     icon_img |-> NoValue, pastes |-> <<>>, final_img |-> NoValue]

Running == frame # NoValue /\ frame.pc # "returned"

Log(ev) == [ev |-> ev, entry |-> frame.entry]

\* line 118: Image.open(input_path)
PI_Open ==
    /\ Running /\ frame.pc = "open"
    /\ IF frame.file.kind = "not_image"
       THEN /\ frame' = [frame EXCEPT !.pc = "except"]
            /\ out' = out \o <<Log("open"), Log("raised")>>
       ELSE /\ frame' = [frame EXCEPT !.pc = "blur", !.img = frame.file.image]
            /\ out' = Append(out, Log("open"))
    /\ UNCHANGED <<call, ret, pc, env, args, icon_paths, idx>>

\* line 120: blurred_img = apply_bottom_blur(img, blur_radius, blur_height);
\* band is the row range it blurred
PI_Blur ==
    /\ Running /\ frame.pc = "blur"
    /\ IF frame.file.kind = "truncated"
       THEN /\ frame' = [frame EXCEPT !.pc = "except"]
            /\ out' = out \o <<Log("blur"), Log("raised")>>
       ELSE /\ frame' = [frame EXCEPT
                    !.pc = "icons",
                    !.blurred_img = apply_bottom_blur(frame.img, frame.blur_radius,
                                                      frame.blur_height),
                    !.band = bottom_area(frame.img, frame.blur_height)]
            /\ out' = Append(out, Log("blur"))
    /\ UNCHANGED <<call, ret, pc, env, args, icon_paths, idx>>

\* lines 123-128: the icon stage runs only on a list that is not empty
PI_Icons ==
    /\ Running /\ frame.pc = "icons"
    /\ IF frame.icon_paths # <<>>
       THEN LET r == add_icons_to_blur(frame.blurred_img, frame.icon_paths,
                                       frame.blur_height, frame.icon_size, frame.spacing)
            IN  /\ frame' = [frame EXCEPT !.pc = "time", !.icon_img = r.image,
                                          !.pastes = r.pastes]
                /\ out' = out \o <<Log("icons")>>
                              \o [k \in 1 .. Len(r.printed) |-> Log("icon_unloadable")]
       ELSE /\ frame' = [frame EXCEPT !.pc = "time", !.icon_img = frame.blurred_img]
            /\ UNCHANGED out
    /\ UNCHANGED <<call, ret, pc, env, args, icon_paths, idx>>

\* A time stage whose failure is logged and passed over: the save still runs
PI_Time_failure_passed_over ==
    /\ Running /\ frame.pc = "time"
    /\ LET r == add_time_to_blur(frame.icon_img, env.font, frame.blur_height,
                                 DefaultPadding, DefaultVerticalOffset)
       IN  /\ frame' = [frame EXCEPT
                    !.pc = "save", !.final_img = r.image, !.icon_img = r.image,
                    !.blurred_img = IF frame.icon_paths = <<>> THEN r.image ELSE @]
           /\ out' = IF r.raised THEN out \o <<Log("time"), Log("raised")>>
                     ELSE Append(out, Log("time"))
    /\ UNCHANGED <<call, ret, pc, env, args, icon_paths, idx>>

\* lines 131-133: final_img = add_time_to_blur(icon_img, time_text, blur_height,
\* font_size=font_size). It draws on icon_img itself, which is blurred_img too
\* when the icon stage was skipped.
PI_Time ==
    /\ Running /\ frame.pc = "time"
    /\ LET r == add_time_to_blur(frame.icon_img, env.font, frame.blur_height,
                                 DefaultPadding, DefaultVerticalOffset)
       IN  IF r.raised
           THEN /\ frame' = [frame EXCEPT !.pc = "except"]
                /\ out' = out \o <<Log("time"), Log("raised")>>
           ELSE /\ frame' = [frame EXCEPT
                        !.pc = "save", !.final_img = r.image, !.icon_img = r.image,
                        !.blurred_img = IF frame.icon_paths = <<>> THEN r.image ELSE @]
                /\ out' = Append(out, Log("time"))
    /\ UNCHANGED <<call, ret, pc, env, args, icon_paths, idx>>

\* line 136: final_img.save(output_path), which needs the directory of
\* output_path to exist
PI_Save ==
    /\ Running /\ frame.pc = "save"
    /\ IF env.output_dir_exists
       THEN /\ frame' = [frame EXCEPT !.pc = "saved"]
            /\ out' = out \o <<Log("save"), Log("written")>>
       ELSE /\ frame' = [frame EXCEPT !.pc = "except"]
            /\ out' = out \o <<Log("save"), Log("raised")>>
    /\ UNCHANGED <<call, ret, pc, env, args, icon_paths, idx>>

\* line 137: the success message
PI_PrintDone ==
    /\ Running /\ frame.pc = "saved"
    /\ frame' = [frame EXCEPT !.pc = "returned"]
    /\ out' = Append(out, Log("ok_msg"))
    /\ UNCHANGED <<call, ret, pc, env, args, icon_paths, idx>>

\* lines 138-139: the failure message
PI_Except ==
    /\ Running /\ frame.pc = "except"
    /\ frame' = [frame EXCEPT !.pc = "returned"]
    /\ out' = Append(out, Log("err_msg"))
    /\ UNCHANGED <<call, ret, pc, env, args, icon_paths, idx>>

process_image ==
    \/ PI_Open \/ PI_Blur \/ PI_Icons \/ PI_Time \/ PI_Save \/ PI_PrintDone \/ PI_Except

----------------------------------------------------------------------------
(* Direct calls of process_image *)

\* One image of every size: a checkerboard, which a blur changes
Checker(w, h) ==
    [w |-> w, h |-> h,
     px |-> [p \in Coords(w, h) |-> IF (p[1] + p[2]) % 2 = 0 THEN 255 ELSE 0]]

SampleImages == { Checker(w, h) : w \in 1 .. MaxW, h \in 1 .. MaxH }

\* The font file font/YaHei.ttf: there or not
SampleFonts ==
    { f \in Fonts : f.bbox = <<MaxBearing, MaxBearing,
                               MaxBearing + MaxText, MaxBearing + MaxText>> }

InitProcess ==
    /\ call = NoValue /\ ret = NoValue
    /\ pc = "process_image"
    /\ args = NoValue /\ icon_paths = <<>> /\ idx = 0
    /\ env \in { [input |-> NoValue, icon_dir |-> NoValue,
                  output_dir_exists |-> o, font |-> f]
                 : o \in BOOLEAN, f \in SampleFonts }
    /\ frame \in { NewFrame(0, file, ps, MaxR, b, s, MaxG)
                   : file \in BadFiles
                              \cup { [kind |-> "image", image |-> im] : im \in SampleImages },
                     ps \in SeqsUpTo(IconFiles, MaxIcons),
                     b \in 0 .. MaxB, s \in 1 .. MaxS }
    /\ out = << [ev |-> "call", entry |-> 0] >>

NextProcess == process_image

SpecProcess == InitProcess /\ [][NextProcess]_vars

\* What a call of process_image did, in order: the events of its entry
EventsOf(entry) ==
    LET mine == SelectSeq(out, LAMBDA e : e.entry = entry
                                          /\ e.ev \notin {"icon_unloadable", "written"})
    IN  [k \in 1 .. Len(mine) |-> mine[k].ev]

IsPrefix(s, t) == Len(s) <= Len(t) /\ s = SubSeq(t, 1, Len(s))

\* The stages in their order; the icon stage only for a list that is not empty
StagesFor(paths) ==
    <<"open", "blur">> \o (IF paths # <<>> THEN <<"icons">> ELSE <<>>) \o <<"time", "save">>

\* The stages that can raise: all but the icon stage, which catches its own
CanRaise == {"open", "blur", "time", "save"}

\* The complete runs of one call: every stage and the success message, or the
\* stages up to the one that raised and then the failure message alone
CompleteRuns(paths) ==
    LET st == StagesFor(paths)
    IN  { <<"call">> \o st \o <<"ok_msg">> }
        \cup { <<"call">> \o SubSeq(st, 1, j) \o <<"raised", "err_msg">>
               : j \in { i \in 1 .. Len(st) : st[i] \in CanRaise } }

\* C4: every icon pasted in a run of the pipeline is vertically centred in the band
\* the blur stage blurred: its top edge is bandStartY + floor((bandHeight - s)/2),
\* [bandStartY, bandStartY + bandHeight) being the rows apply_bottom_blur blurred,
\* for every configured band height, also one above the image height.
C4_IconsCentredInBlurredBand ==
    (frame # NoValue /\ frame.band # NoValue) =>
        \A k \in 1 .. Len(frame.pastes) :
            frame.pastes[k].y =
                frame.band[2] + ((frame.band[4] - frame.band[2]) - frame.icon_size) \div 2

\* What the code does instead: it centres in [H - b, H) for the configured b
IconsCentredInConfiguredBand ==
    (frame # NoValue /\ frame.band # NoValue) =>
        \A k \in 1 .. Len(frame.pastes) :
            frame.pastes[k].y =
                (frame.file.image.h - frame.blur_height)
                    + (frame.blur_height - frame.icon_size) \div 2

\* C8: with an empty icon list the image handed to the time stage is the blur
\* stage's output, pixel for pixel and in size, both as process_image skips the
\* icon stage and as add_icons_to_blur returns it for an empty list.
C8_EmptyIconListNoOp ==
    (frame # NoValue /\ frame.pc = "time" /\ frame.icon_paths = <<>>) =>
        /\ frame.icon_img = frame.blurred_img
        /\ frame.blurred_img = apply_bottom_blur(frame.img, frame.blur_radius,
                                                 frame.blur_height)
        /\ add_icons_to_blur(frame.blurred_img, <<>>, frame.blur_height,
                             frame.icon_size, frame.spacing).image = frame.blurred_img
        /\ add_icons_to_blur(frame.blurred_img, <<>>, frame.blur_height,
                             frame.icon_size, frame.spacing).pastes = <<>>

\* C8's case: no icons, a blur that changed the image, the time stage next
C8_Witness ==
    /\ frame # NoValue /\ frame.pc = "time" /\ frame.icon_paths = <<>>
    /\ frame.blurred_img # frame.img
    /\ frame.icon_img = frame.blurred_img

\* C10: a call of process_image runs blur, icons (skipped only for an empty list),
\* time and save in this order; once a step raises no later step runs; and the
\* call ends with exactly one outcome message, success or failure.
C10_StageOrder ==
    frame # NoValue =>
        /\ \E run \in CompleteRuns(frame.icon_paths) :
              /\ IsPrefix(EventsOf(frame.entry), run)
              /\ frame.pc = "returned" => EventsOf(frame.entry) = run
        /\ \A k \in 1 .. Len(out) :
              out[k].ev = "written" => /\ k > 1 /\ out[k - 1].ev = "save"
                                       /\ \E j \in 1 .. k : out[j].ev = "time"

\* C10's case: the font fails to load after the icon stage ran; nothing is saved
C10_Witness ==
    /\ frame # NoValue /\ frame.pc = "returned"
    /\ EventsOf(frame.entry) =
          <<"call", "open", "blur", "icons", "time", "raised", "err_msg">>

----------------------------------------------------------------------------
(* main *)

MaxFiles == 2      \* most entries of an input directory

\* The files an input path or an input directory entry may be
InputFiles == BadFiles \cup { [kind |-> "image", image |-> Checker(MaxW, MaxH)] }

\* args.input: missing, one file, or a directory and its entries
Inputs ==
    { [kind |-> "missing", entries |-> <<>>] }
    \cup { [kind |-> "file", entries |-> <<f>>] : f \in InputFiles }
    \cup { [kind |-> "dir", entries |-> es] : es \in SeqsUpTo(InputFiles, MaxFiles) }

\* args.icons: a directory os.listdir can list, with its files, or not
IconDirs ==
    { [ok |-> FALSE, files |-> <<>>] }
    \cup { [ok |-> TRUE, files |-> fs] : fs \in SeqsUpTo(IconFiles, MaxIcons) }

MainLog(ev) == [ev |-> ev, entry |-> -1]

Init ==
    /\ call = NoValue /\ ret = NoValue
    /\ pc = "start"
    /\ env \in { [input |-> i, icon_dir |-> d, output_dir_exists |-> o, font |-> f]
                 : i \in Inputs, d \in IconDirs, o \in BOOLEAN, f \in SampleFonts }
    /\ args \in { [output |-> o, radius |-> MaxR, height |-> MaxH,
                   iconsize |-> MaxS, spacing |-> MaxG]
                  : o \in {"", "OUTPUT"} }
    /\ icon_paths = <<>>
    /\ idx = 0
    /\ frame = NoValue
    /\ out = <<>>

\* A check of the input path that reports and goes on
Main_CheckInput_no_return ==
    /\ pc = "start"
    /\ args' = IF args.output = "" THEN [args EXCEPT !.output = "INPUT_enhanced"] ELSE args
    /\ out' = IF env.input.kind = "missing"
              THEN Append(out, MainLog("missing_input_msg")) ELSE out
    /\ pc' = "list_icons"
    /\ UNCHANGED <<call, ret, env, icon_paths, idx, frame>>

\* lines 158-166: the default output name, then the check of the input path
Main_CheckInput ==
    /\ pc = "start"
    /\ args' = IF args.output = "" THEN [args EXCEPT !.output = "INPUT_enhanced"] ELSE args
    /\ IF env.input.kind = "missing"
       THEN /\ out' = Append(out, MainLog("missing_input_msg"))
            /\ pc' = "exit"
       ELSE /\ pc' = "list_icons"
            /\ UNCHANGED out
    /\ UNCHANGED <<call, ret, env, icon_paths, idx, frame>>

\* lines 169-172: os.listdir(icon_dir) is outside every try: its exception
\* leaves main
Main_ListIcons ==
    /\ pc = "list_icons"
    /\ out' = Append(out, MainLog("listdir_icons"))
    /\ IF env.icon_dir.ok
       THEN /\ icon_paths' = env.icon_dir.files
            /\ pc' = "dispatch"
       ELSE /\ pc' = "uncaught"
            /\ UNCHANGED icon_paths
    /\ UNCHANGED <<call, ret, env, args, idx, frame>>

CallProcessImage(entry) ==
    /\ frame' = NewFrame(entry, env.input.entries[entry], icon_paths,
                         args.radius, args.height, args.iconsize, args.spacing)
    /\ out' = Append(out, [ev |-> "call", entry |-> entry])

\* line 175, and lines 191-201 for a single file
Main_Dispatch ==
    /\ pc = "dispatch"
    /\ IF env.input.kind = "dir"
       THEN /\ pc' = "loop"
            /\ UNCHANGED <<frame, out>>
       ELSE /\ pc' = "single"
            /\ CallProcessImage(1)
    /\ UNCHANGED <<call, ret, env, args, icon_paths, idx>>

\* lines 176-189: the next entry of os.listdir(args.input), if there is one
Main_Loop ==
    /\ pc = "loop"
    /\ ~Running
    /\ IF idx < Len(env.input.entries)
       THEN /\ idx' = idx + 1
            /\ CallProcessImage(idx + 1)
            /\ UNCHANGED pc
       ELSE /\ pc' = "finish"
            /\ UNCHANGED <<idx, frame, out>>
    /\ UNCHANGED <<call, ret, env, args, icon_paths>>

\* line 203
Main_Finish ==
    /\ \/ pc = "finish"
       \/ pc = "single" /\ ~Running
    /\ out' = Append(out, MainLog("done_msg"))
    /\ pc' = "exit"
    /\ UNCHANGED <<call, ret, env, args, icon_paths, idx, frame>>

Next ==
    \/ Main_CheckInput
    \/ Main_ListIcons
    \/ Main_Dispatch
    \/ Main_Loop
    \/ process_image
    \/ Main_Finish

Spec == Init /\ [][Next]_vars

\* How many times ev was logged for an entry
Count(ev, entry) ==
    Cardinality({ k \in 1 .. Len(out) : out[k].ev = ev /\ out[k].entry = entry })

Logged(ev) == \E k \in 1 .. Len(out) : out[k].ev = ev

\* The invocation is over: main returned, or an exception left it
Ended == pc \in {"exit", "uncaught"}

\* C6: in a directory-mode run every entry is processed exactly once, and exactly
\* the entries that are good images end with a saved output, each other entry with
\* one logged failure.
C6_DirectoryBatch ==
    (env.input.kind = "dir" /\ Ended) =>
        \A k \in 1 .. Len(env.input.entries) :
            /\ Count("call", k) = 1
            /\ IF env.input.entries[k].kind = "image"
               THEN Count("written", k) = 1 /\ Count("err_msg", k) = 0
               ELSE Count("written", k) = 0 /\ Count("err_msg", k) = 1

\* What the code does give in a directory-mode run that reaches line 203: every
\* entry is processed once and ends with one outcome, a saved output or a failure.
DirectoryBatchOneOutcomeEach ==
    (env.input.kind = "dir" /\ pc = "exit") =>
        \A k \in 1 .. Len(env.input.entries) :
            /\ Count("call", k) = 1
            /\ Count("written", k) + Count("err_msg", k) = 1
            /\ Count("written", k) = Count("ok_msg", k)
            /\ env.input.entries[k].kind # "image" => Count("err_msg", k) = 1

\* C7: with a missing input path main reports it and stops: the icon directory is
\* not listed, process_image is not called, nothing is written, and the final
\* message is not printed.
C7_MissingInputAborts ==
    env.input.kind = "missing" =>
        /\ pc \in {"start", "exit"}
        /\ pc = "exit" => out = << MainLog("missing_input_msg") >>
        /\ ~Logged("listdir_icons")
        /\ ~Logged("call")
        /\ ~Logged("written")
        /\ ~Logged("done_msg")
        /\ frame = NoValue

\* C7's case: the input path is missing and main has returned
C7_Witness ==
    /\ env.input.kind = "missing"
    /\ pc = "exit"
    /\ Logged("missing_input_msg")

\* C9: no failure leaves main as an exception: the invocation ends with the
\* missing-input report or with the final message.
C9_NothingEscapesMain ==
    /\ pc # "uncaught"
    /\ pc = "exit" => /\ out # <<>>
                      /\ out[Len(out)].ev \in {"missing_input_msg", "done_msg"}

=============================================================================
